---- MODULE Spec2Model ----
(***************************************************************************)
(* worm-scan (bin/worm-scan.mjs): the matching engine and the CLI run.     *)
(*                                                                         *)
(* A JavaScript string is a sequence of one-character strings, so that     *)
(* trimming, splitting, numeric conversion, key formatting and collation   *)
(* are computed character by character as the code computes them.          *)
(***************************************************************************)
EXTENDS Integers, Sequences, FiniteSets, TLC

VARIABLES
    op,         \* which operation this behaviour exercises
    pc,         \* position of the operation / of main
    args,       \* the inputs of the operation
    out,        \* what the operation returned
    malwareRaw, \* main: the promise of fetchMalwareList()
    treeRaw,    \* main: the promise of readNpmTree()
    stdout,     \* main: the findings printFindings has printed
    exitCode    \* main: the code given to process.exit, -1 while running

vars == <<op, pc, args, out, malwareRaw, treeRaw, stdout, exitCode>>

mainVars == <<malwareRaw, treeRaw, stdout, exitCode>>

\* a promise: not created, pending, resolved with a value, rejected
NotStarted ==
    [state |-> "none", value |-> [t |-> "undefined", s |-> <<>>, items |-> <<>>]]

\* the state of main's variables while another operation is exercised
MainIdle ==
    /\ malwareRaw = NotStarted
    /\ treeRaw = NotStarted
    /\ stdout = <<>>
    /\ exitCode = -1

-----------------------------------------------------------------------------
(* Strings                                                                 *)

Digits == {"0", "1", "2", "3", "4", "5", "6", "7", "8", "9"}

DigitVal(c) ==
    CASE c = "0" -> 0 [] c = "1" -> 1 [] c = "2" -> 2 [] c = "3" -> 3
      [] c = "4" -> 4 [] c = "5" -> 5 [] c = "6" -> 6 [] c = "7" -> 7
      [] c = "8" -> 8 [] c = "9" -> 9

\* The characters the inputs are built from.  None of them is one that
\* Number() reads as part of a hex, octal, binary, exponent or Infinity
\* literal, and the only white space is the space: over these strings a
\* numeric string is an optional sign and a decimal literal, with or without
\* a decimal point.
Chars == {" ", "-", ".", "@", "0", "1", "2", "3", "a", "c", "v"}

\* Collation rank of a character under String.prototype.localeCompare
\* (ICU root collation: white space, punctuation, digits, letters).
CharRank(c) ==
    CASE c = " " -> 0 [] c = "-" -> 1 [] c = "." -> 2 [] c = "@" -> 3
      [] c \in Digits -> 10 + DigitVal(c)
      [] c = "a" -> 20 [] c = "c" -> 22 [] c = "v" -> 41

Sign(n) == IF n < 0 THEN -1 ELSE IF n > 0 THEN 1 ELSE 0

Abs(n) == IF n < 0 THEN -n ELSE n

RECURSIVE localeCompare(_, _)
localeCompare(a, b) ==
    IF a = <<>> THEN (IF b = <<>> THEN 0 ELSE -1)
    ELSE IF b = <<>> THEN 1
    ELSE IF CharRank(Head(a)) < CharRank(Head(b)) THEN -1
    ELSE IF CharRank(Head(a)) > CharRank(Head(b)) THEN 1
    ELSE localeCompare(Tail(a), Tail(b))

RECURSIVE TrimStart(_)
TrimStart(s) ==
    IF s # <<>> /\ Head(s) = " " THEN TrimStart(Tail(s)) ELSE s

RECURSIVE TrimEnd(_)
TrimEnd(s) ==
    IF s # <<>> /\ s[Len(s)] = " " THEN TrimEnd(SubSeq(s, 1, Len(s) - 1)) ELSE s

Trim(s) == TrimEnd(TrimStart(s))

\* s.replace(/^v/, '')
StripLeadingV(s) == IF s # <<>> /\ Head(s) = "v" THEN Tail(s) ELSE s

\* s.split(sep): the segments between the occurrences of sep
RECURSIVE SplitFrom(_, _, _)
SplitFrom(s, sep, cur) ==
    IF s = <<>> THEN <<cur>>
    ELSE IF Head(s) = sep THEN <<cur>> \o SplitFrom(Tail(s), sep, <<>>)
    ELSE SplitFrom(Tail(s), sep, Append(cur, Head(s)))

Split(s, sep) == SplitFrom(s, sep, <<>>)

RECURSIVE DigitsValue(_, _)
DigitsValue(s, acc) ==
    IF s = <<>> THEN acc ELSE DigitsValue(Tail(s), 10 * acc + DigitVal(Head(s)))

AllDigits(s) == s # <<>> /\ \A i \in 1..Len(s) : s[i] \in Digits

\* digits only, possibly none
DigitsOrEmpty(s) == \A i \in 1..Len(s) : s[i] \in Digits

RECURSIVE StripTrailingZeros(_)
StripTrailingZeros(s) ==
    IF s # <<>> /\ s[Len(s)] = "0"
    THEN StripTrailingZeros(SubSeq(s, 1, Len(s) - 1))
    ELSE s

\* A number is its integer part val (truncated towards zero), the digits
\* frac of its fraction without trailing zeros, and its sign; NaN is apart.
\* The digit runs of the inputs are short, so that no value is rounded.
NaN == [nan |-> TRUE, neg |-> FALSE, val |-> 0, frac |-> <<>>]

\* the value of the parts of a literal around its decimal points
DecimalOf(parts) ==
    IF Len(parts) = 1
    THEN IF AllDigits(parts[1])
         THEN [nan |-> FALSE, neg |-> FALSE, val |-> DigitsValue(parts[1], 0), frac |-> <<>>]
         ELSE NaN
    ELSE IF /\ Len(parts) = 2
            /\ DigitsOrEmpty(parts[1])
            /\ DigitsOrEmpty(parts[2])
            /\ (parts[1] # <<>> \/ parts[2] # <<>>)
         THEN [nan |-> FALSE, neg |-> FALSE, val |-> DigitsValue(parts[1], 0),
               frac |-> StripTrailingZeros(parts[2])]
    ELSE NaN

\* an unsigned decimal literal: digits, digits. , digits.digits or .digits
UnsignedNumber(t) ==
    CHOOSE n \in {DecimalOf(parts) : parts \in {Split(t, ".")}} : TRUE

\* -n
Negated(n) ==
    CHOOSE m \in {[u EXCEPT !.neg = ~u.nan, !.val = -u.val] : u \in {n}} : TRUE

\* Number(str): white space is trimmed, the empty string is 0, an optional
\* sign and a decimal literal are its value, anything else is NaN.
SignedNumber(t) ==
    IF t = <<>> THEN [nan |-> FALSE, neg |-> FALSE, val |-> 0, frac |-> <<>>]
    ELSE IF Head(t) = "-" THEN Negated(UnsignedNumber(Tail(t)))
    ELSE IF Head(t) = "+" THEN UnsignedNumber(Tail(t))
    ELSE UnsignedNumber(t)

ToNumber(str) ==
    CHOOSE n \in {SignedNumber(t) : t \in {Trim(str)}} : TRUE

\* Number.isInteger(n)
IsInteger(n) == ~n.nan /\ n.frac = <<>>

-----------------------------------------------------------------------------
(* parseSemver, cmpVer                                                     *)

\* null
Unparsed == [ok |-> FALSE, major |-> 0, minor |-> 0, patch |-> 0]

parseSemver(v) ==
    LET s    == StripLeadingV(Trim(v))
        segs == Split(s, ".")
    IN  IF Len(segs) < 3 THEN Unparsed
        ELSE LET patchStr == Split(segs[3], "-")[1]
                 M == ToNumber(segs[1])
                 m == ToNumber(segs[2])
                 p == ToNumber(patchStr)
             IN  IF ~IsInteger(M) \/ ~IsInteger(m) \/ ~IsInteger(p) THEN Unparsed
                 ELSE [ok |-> TRUE, major |-> M.val, minor |-> m.val, patch |-> p.val]

\* cmpVer with the sign of the last one-sided case mistaken
cmpVer_oneSided(a, b) ==
    LET pa == parseSemver(a)
        pb == parseSemver(b)
    IN  IF pa.ok /\ pb.ok
        THEN IF pa.major # pb.major THEN pa.major - pb.major
             ELSE IF pa.minor # pb.minor THEN pa.minor - pb.minor
             ELSE pa.patch - pb.patch
        ELSE IF pa.ok /\ ~pb.ok THEN -1
        ELSE IF ~pa.ok /\ pb.ok THEN -1
        ELSE localeCompare(a, b)

cmpVer(a, b) ==
    LET pa == parseSemver(a)
        pb == parseSemver(b)
    IN  IF pa.ok /\ pb.ok
        THEN IF pa.major # pb.major THEN pa.major - pb.major
             ELSE IF pa.minor # pb.minor THEN pa.minor - pb.minor
             ELSE pa.patch - pb.patch
        ELSE IF pa.ok /\ ~pb.ok THEN -1
        ELSE IF ~pa.ok /\ pb.ok THEN 1
        ELSE localeCompare(a, b)

-----------------------------------------------------------------------------
(* scan                                                                    *)

\* A Map<string, Set<string>> is a function from its keys to the sequence of
\* the set's members in insertion order (the order a Set iterates in).
MapHas(map, name) == name \in DOMAIN map

SetHas(blocked, version) == \E i \in 1..Len(blocked) : blocked[i] = version

NoMatch == [level |-> "none", against |-> <<>>]

\* the loop with the patch difference taken without Math.abs
RECURSIVE scanBlocked_noAbs(_, _, _, _, _)
scanBlocked_noAbs(version, pv, blocked, patchDistance, i) ==
    IF i > Len(blocked) THEN NoMatch
    ELSE LET bver == blocked[i]
             bv   == parseSemver(bver)
         IN  IF bver = version THEN [level |-> "critical", against |-> version]
             ELSE IF ~bv.ok THEN scanBlocked_noAbs(version, pv, blocked, patchDistance, i + 1)
             ELSE IF pv.major = bv.major /\ pv.minor = bv.minor
                     /\ pv.patch - bv.patch <= patchDistance
                  THEN [level |-> "warning", against |-> bver]
             ELSE scanBlocked_noAbs(version, pv, blocked, patchDistance, i + 1)

\* for (const bver of blocked) { ... } of scan, from entry i on
RECURSIVE scanBlocked(_, _, _, _, _)
scanBlocked(version, pv, blocked, patchDistance, i) ==
    IF i > Len(blocked) THEN NoMatch
    ELSE LET bver == blocked[i]
             bv   == parseSemver(bver)
         IN  IF bver = version THEN [level |-> "critical", against |-> version]
             ELSE IF ~bv.ok THEN scanBlocked(version, pv, blocked, patchDistance, i + 1)
             ELSE IF pv.major = bv.major /\ pv.minor = bv.minor
                     /\ Abs(pv.patch - bv.patch) <= patchDistance
                  THEN [level |-> "warning", against |-> bver]
             ELSE scanBlocked(version, pv, blocked, patchDistance, i + 1)

\* classify with the has() test dropped
classify_noHas(name, version, malwareMap, patchDistance) ==
    IF ~MapHas(malwareMap, name) THEN NoMatch
    ELSE LET pv == parseSemver(version) IN
         IF pv.ok THEN scanBlocked(version, pv, malwareMap[name], patchDistance, 1)
         ELSE NoMatch

\* classify against the versions of every name
classify_anyName(name, version, malwareMap, patchDistance) ==
    LET blocked == CHOOSE q \in [1..Cardinality(DOMAIN malwareMap) -> DOMAIN malwareMap] :
                       \A n \in DOMAIN malwareMap : \E i \in DOMAIN q : q[i] = n
        all == IF DOMAIN malwareMap = {} THEN <<>>
               ELSE IF Len(blocked) = 1 THEN malwareMap[blocked[1]]
               ELSE malwareMap[blocked[1]] \o malwareMap[blocked[2]]
    IN  IF all = <<>> THEN NoMatch
        ELSE IF SetHas(all, version) THEN [level |-> "critical", against |-> version]
        ELSE LET pv == parseSemver(version) IN
             IF pv.ok THEN scanBlocked(version, pv, all, patchDistance, 1)
             ELSE NoMatch

\* The body of scan's loop for one installed package: the finding it pushes,
\* or NoMatch.
classify(name, version, malwareMap, patchDistance) ==
    IF ~MapHas(malwareMap, name) THEN NoMatch
    ELSE LET blocked == malwareMap[name] IN
         IF SetHas(blocked, version)
         THEN [level |-> "critical", against |-> version]
         ELSE LET pv == parseSemver(version) IN
              IF pv.ok THEN scanBlocked(version, pv, blocked, patchDistance, 1)
              ELSE NoMatch

RECURSIVE scanLoop(_, _, _, _)
scanLoop(installed, malwareMap, patchDistance, i) ==
    IF i > Len(installed) THEN <<>>
    ELSE LET p == installed[i]
             c == classify(p.name, p.version, malwareMap, patchDistance)
             rest == scanLoop(installed, malwareMap, patchDistance, i + 1)
         IN  IF c.level = "none" THEN rest
             ELSE <<[level |-> c.level, name |-> p.name, version |-> p.version,
                     against |-> c.against]>> \o rest

\* the comparator without the level test
cmpFinding_noLevel(a, b) ==
    IF a.name # b.name THEN localeCompare(a.name, b.name)
    ELSE cmpVer(a.version, b.version)

\* the comparator of findings.sort
cmpFinding(a, b) ==
    IF a.level # b.level THEN (IF a.level = "critical" THEN -1 ELSE 1)
    ELSE IF a.name # b.name THEN localeCompare(a.name, b.name)
    ELSE cmpVer(a.version, b.version)

\* Array.prototype.sort is stable: an element moves left only past those it
\* compares strictly less than.
RECURSIVE insertFinding(_, _)
insertFinding(sorted, x) ==
    IF sorted # <<>> /\ cmpFinding(x, sorted[Len(sorted)]) < 0
    THEN Append(insertFinding(SubSeq(sorted, 1, Len(sorted) - 1), x), sorted[Len(sorted)])
    ELSE Append(sorted, x)

RECURSIVE sortFindings(_)
sortFindings(fs) ==
    IF fs = <<>> THEN <<>>
    ELSE insertFinding(sortFindings(SubSeq(fs, 1, Len(fs) - 1)), fs[Len(fs)])

scan(installed, malwareMap, patchDistance) ==
    sortFindings(scanLoop(installed, malwareMap, patchDistance, 1))

-----------------------------------------------------------------------------
(* Inputs                                                                  *)

MaxPatch == 2       \* patch numbers of the plain versions 1.0.p
MaxInstalled == 2   \* length of an installed list
MaxFacts == 2       \* (name, version) facts in an advisory map
MaxThreshold == 2   \* patch distance thresholds 0..MaxThreshold

Dec(n) == <<CHOOSE c \in Digits : DigitVal(c) = n>>

Semver(M, m, p) == Dec(M) \o <<".">> \o Dec(m) \o <<".">> \o Dec(p)

PlainVersions == {Semver(1, 0, p) : p \in 0..MaxPatch}

\* 1.0.1 in another string form, another minor, another major, no semver
OddVersions == {<<"v">> \o Semver(1, 0, 1), Semver(1, 1, 1), Semver(2, 0, 1), <<"a">>}

ScanVersions == PlainVersions \cup OddVersions

Names == {<<"a">>, <<"c">>}

Packages(versions) == [name : Names, version : versions]

\* the duplicate-free sequences over a set, up to a length
RECURSIVE SeqsUpTo(_, _)
SeqsUpTo(set, n) ==
    IF n = 0 THEN {<<>>}
    ELSE LET shorter == SeqsUpTo(set, n - 1) IN
         shorter \cup {Append(q, x) : q \in {r \in shorter : Len(r) = n - 1}, x \in set}

NoDup(q) == \A i, j \in 1..Len(q) : i # j => q[i] # q[j]

ListsUpTo(set, n) == {q \in SeqsUpTo(set, n) : NoDup(q)}

EmptyMap == [n \in {} |-> <<>>]

\* add(name, version) of normalizeMalwareList on a map: a Set keeps the first
\* insertion of a member
MapAdd(map, name, version) ==
    IF ~MapHas(map, name) THEN [n \in DOMAIN map \cup {name} |->
                                   IF n = name THEN <<version>> ELSE map[n]]
    ELSE IF SetHas(map[name], version) THEN map
    ELSE [map EXCEPT ![name] = Append(@, version)]

RECURSIVE MapOfFacts(_)
MapOfFacts(facts) ==
    IF facts = <<>> THEN EmptyMap
    ELSE MapAdd(MapOfFacts(SubSeq(facts, 1, Len(facts) - 1)),
                facts[Len(facts)].name, facts[Len(facts)].version)

\* the advisory maps that up to n facts over the versions build
MapsOf(versions, n) == {MapOfFacts(f) : f \in ListsUpTo(Packages(versions), n)}

\* the maps that list at most one version for a name
FlatMaps(versions) ==
    UNION {[D -> {<<v>> : v \in versions}] : D \in SUBSET Names}

\* scan's inputs: one installed package against every advisory map, and
\* every installed list against the maps of one version a name
ScanInputs(maxInstalled, maxFacts, maxThreshold) ==
    [installed : ListsUpTo(Packages(ScanVersions), 1),
     malwareMap : MapsOf(ScanVersions, maxFacts),
     patchDistance : 0..maxThreshold]
    \cup
    [installed : ListsUpTo(Packages(PlainVersions \cup {<<"v">> \o Semver(1, 0, 1), <<"a">>}),
                           maxInstalled),
     malwareMap : FlatMaps(PlainVersions \cup {<<"a">>}),
     patchDistance : 0..maxThreshold]

-----------------------------------------------------------------------------
(* scan(installed, malwareMap, patchDistance) on every input               *)

None == <<>>

InitScan ==
    /\ op = "scan"
    /\ pc = "call"
    /\ args \in ScanInputs(MaxInstalled, MaxFacts, MaxThreshold)
    /\ out = None
    /\ MainIdle

CallScan ==
    /\ op = "scan"
    /\ pc = "call"
    /\ out' = scan(args.installed, args.malwareMap, args.patchDistance)
    /\ pc' = "done"
    /\ UNCHANGED <<op, args>>
    /\ UNCHANGED mainVars

NextScan == CallScan

SpecScan == InitScan /\ [][NextScan]_vars

-----------------------------------------------------------------------------
(* Claims about scan                                                       *)

ScanDone == op = "scan" /\ pc = "done"

\* the positions of the findings about an installed package
FindingsFor(fs, p) ==
    {i \in 1..Len(fs) : fs[i].name = p.name /\ fs[i].version = p.version}

Listed(map, p) == p.name \in DOMAIN map

ExactlyBlocked(map, p) ==
    Listed(map, p) /\ \E i \in 1..Len(map[p.name]) : map[p.name][i] = p.version

\* the advisory versions of p's name within the patch distance of p's version
Adjacent(map, p, threshold) ==
    {b \in {map[p.name][i] : i \in 1..Len(map[p.name])} :
        LET pv == parseSemver(p.version)
            bv == parseSemver(b)
        IN  /\ pv.ok /\ bv.ok
            /\ pv.major = bv.major /\ pv.minor = bv.minor
            /\ Abs(pv.patch - bv.patch) <= threshold}

\* the advisory versions of p's name that are p's x.y.z in another string
SameTriple(map, p) ==
    {b \in {map[p.name][i] : i \in 1..Len(map[p.name])} :
        LET pv == parseSemver(p.version)
            bv == parseSemver(b)
        IN  /\ b # p.version /\ pv.ok /\ bv.ok
            /\ pv.major = bv.major /\ pv.minor = bv.minor /\ pv.patch = bv.patch}

\* C2: an installed package whose version string is a member of its name's
\* advisory set gets exactly one finding, critical, against its own version.
C2_ExactMatchCritical ==
    ScanDone =>
        \A k \in 1..Len(args.installed) :
            LET p == args.installed[k] IN
            ExactlyBlocked(args.malwareMap, p) =>
                /\ Cardinality(FindingsFor(out, p)) = 1
                /\ \A i \in FindingsFor(out, p) :
                       out[i].level = "critical" /\ out[i].against = p.version

\* two installed packages, one of them an exact match that is no semver
C2_Witness ==
    /\ ScanDone
    /\ Len(args.installed) = 2
    /\ \E k \in 1..2 :
          /\ ExactlyBlocked(args.malwareMap, args.installed[k])
          /\ ~parseSemver(args.installed[k].version).ok
          /\ FindingsFor(out, args.installed[k]) # {}

\* C3: an installed package whose name is listed and whose version string is
\* no member gets exactly one warning, against an advisory version of the
\* same major.minor within the threshold, when there is one, and no finding
\* when there is none (so none when its version does not parse).
C3_WarningIffAdjacent ==
    ScanDone =>
        \A k \in 1..Len(args.installed) :
            LET p   == args.installed[k]
                adj == Adjacent(args.malwareMap, p, args.patchDistance)
            IN  (Listed(args.malwareMap, p) /\ ~ExactlyBlocked(args.malwareMap, p)) =>
                    IF adj # {}
                    THEN /\ Cardinality(FindingsFor(out, p)) = 1
                         /\ \A i \in FindingsFor(out, p) :
                                out[i].level = "warning" /\ out[i].against \in adj
                    ELSE FindingsFor(out, p) = {}

\* threshold 1: a package one patch away is warned, a package two patches
\* away is clean
C3_Witness ==
    /\ ScanDone
    /\ args.patchDistance = 1
    /\ \E k, l \in 1..Len(args.installed) :
          LET p == args.installed[k]
              q == args.installed[l]
          IN  /\ Listed(args.malwareMap, p) /\ Listed(args.malwareMap, q)
              /\ \E i \in FindingsFor(out, p) : out[i].level = "warning"
              /\ parseSemver(q.version).ok
              /\ FindingsFor(out, q) = {}
              /\ \E i \in 1..Len(args.malwareMap[q.name]) :
                    LET bv == parseSemver(args.malwareMap[q.name][i])
                        qv == parseSemver(q.version)
                    IN  bv.ok /\ bv.major = qv.major /\ bv.minor = qv.minor
                        /\ Abs(bv.patch - qv.patch) = 2

\* C4: an installed package whose version string is no member, while an
\* advisory entry of its name is the same x.y.z in another string form, gets
\* a critical finding.
C4_SameTripleCritical ==
    ScanDone =>
        \A k \in 1..Len(args.installed) :
            LET p == args.installed[k] IN
            (Listed(args.malwareMap, p) /\ ~ExactlyBlocked(args.malwareMap, p)
                /\ SameTriple(args.malwareMap, p) # {}) =>
                \E i \in FindingsFor(out, p) : out[i].level = "critical"

\* C5: every finding names a key of the advisory map and is against a member
\* of that key's set; an installed package whose name is no key has no
\* finding.
C5_FindingsWithinMap ==
    ScanDone =>
        /\ \A i \in 1..Len(out) :
              /\ out[i].name \in DOMAIN args.malwareMap
              /\ \E j \in 1..Len(args.malwareMap[out[i].name]) :
                    args.malwareMap[out[i].name][j] = out[i].against
        /\ \A k \in 1..Len(args.installed) :
              ~Listed(args.malwareMap, args.installed[k]) =>
                  FindingsFor(out, args.installed[k]) = {}

\* a finding, and an installed package of an unlisted name whose version is
\* listed for the other name
C5_Witness ==
    /\ ScanDone
    /\ out # <<>>
    /\ \E k \in 1..Len(args.installed) :
          LET p == args.installed[k] IN
          /\ ~Listed(args.malwareMap, p)
          /\ \E n \in DOMAIN args.malwareMap :
                \E j \in 1..Len(args.malwareMap[n]) : args.malwareMap[n][j] = p.version

\* C6: no warning precedes a critical finding, and two adjacent findings of
\* one level are in order of name, then of version by cmpVer.
C6_FindingsOrdered ==
    ScanDone =>
        /\ \A i, j \in 1..Len(out) :
              (i < j) => ~(out[i].level = "warning" /\ out[j].level = "critical")
        /\ \A i \in 1..(Len(out) - 1) :
              (out[i].level = out[i + 1].level) =>
                  \/ localeCompare(out[i].name, out[i + 1].name) < 0
                  \/ /\ out[i].name = out[i + 1].name
                     /\ cmpVer(out[i].version, out[i + 1].version) <= 0

\* the installed list had the warned package before the critical one
C6_Witness ==
    /\ ScanDone
    /\ Len(out) = 2
    /\ out[1].level = "critical" /\ out[2].level = "warning"
    /\ args.installed[1].name = out[2].name
    /\ args.installed[1].version = out[2].version

-----------------------------------------------------------------------------
(* cmpVer(a, b) on every pair and triple of version strings                *)

\* version strings that do not parse, and that parse in unusual ways
CmpVersions ==
    ScanVersions
    \cup {Dec(1) \o <<".">> \o Dec(0),              \* 1.0
          <<"c">>,
          Semver(1, 0, 1) \o <<"-", "a">>,           \* 1.0.1-a
          <<"-">> \o Semver(1, 0, 0),                \* -1.0.0
          <<" ">> \o Semver(1, 0, 0)}                \* white space, then 1.0.0

InitCmp ==
    /\ op = "cmpVer"
    /\ pc = "call"
    /\ args \in [a : CmpVersions, b : CmpVersions, c : CmpVersions]
    /\ out = None
    /\ MainIdle

CallCmpVer ==
    /\ op = "cmpVer"
    /\ pc = "call"
    /\ out' = [ab |-> cmpVer(args.a, args.b), ba |-> cmpVer(args.b, args.a),
               bc |-> cmpVer(args.b, args.c), ac |-> cmpVer(args.a, args.c)]
    /\ pc' = "done"
    /\ UNCHANGED <<op, args>>
    /\ UNCHANGED mainVars

NextCmp == CallCmpVer

SpecCmp == InitCmp /\ [][NextCmp]_vars

CmpDone == op = "cmpVer" /\ pc = "done"

\* the order of two parsed versions by major, then minor, then patch
TripleOrder(pa, pb) ==
    IF pa.major # pb.major THEN (IF pa.major < pb.major THEN -1 ELSE 1)
    ELSE IF pa.minor # pb.minor THEN (IF pa.minor < pb.minor THEN -1 ELSE 1)
    ELSE IF pa.patch # pb.patch THEN (IF pa.patch < pb.patch THEN -1 ELSE 1)
    ELSE 0

\* sign symmetry, transitivity, parsable before unparsable, parsable by
\* major, minor, patch
WeakOrder ==
    LET pa == parseSemver(args.a)
        pb == parseSemver(args.b)
    IN  /\ Sign(out.ab) = -Sign(out.ba)
        /\ (out.ab <= 0 /\ out.bc <= 0) => out.ac <= 0
        /\ (out.ab < 0 /\ out.bc <= 0) => out.ac < 0
        /\ (out.ab <= 0 /\ out.bc < 0) => out.ac < 0
        /\ (pa.ok /\ ~pb.ok) => out.ab < 0
        /\ (pa.ok /\ pb.ok) => Sign(out.ab) = TripleOrder(pa, pb)

\* C10 as stated: cmpVer is a strict total order over version strings, so
\* besides sign symmetry, transitivity, parsable before unparsable and the
\* order by major, minor, patch, two different strings never compare equal.
C10_StrictTotalOrder ==
    CmpDone => (WeakOrder /\ (args.a # args.b => out.ab # 0))

\* C10 amended: cmpVer is a total preorder over version strings (sign
\* symmetry, transitivity, parsable before unparsable, parsable versions by
\* major, minor, patch); two strings that parse to the same major, minor and
\* patch compare equal even when the strings differ.
C10_TotalPreorder ==
    CmpDone =>
        /\ WeakOrder
        /\ LET pa == parseSemver(args.a)
               pb == parseSemver(args.b)
           IN  (pa.ok /\ pb.ok /\ pa.major = pb.major /\ pa.minor = pb.minor
                    /\ pa.patch = pb.patch) => out.ab = 0

\* two different strings of one x.y.z compare equal, and both sort before a
\* string that does not parse
C10_Witness ==
    /\ CmpDone
    /\ args.a # args.b
    /\ out.ab = 0
    /\ ~parseSemver(args.c).ok
    /\ out.bc < 0 /\ out.ac < 0

-----------------------------------------------------------------------------
(* parseSemver(v) on every short string and on some longer version strings *)

MaxParseLen == 4    \* length of the strings taken exhaustively

\* white space, a sign, the separator, a digit, a letter, the prefix
ParseChars == {" ", "-", ".", "1", "a", "v"}

\* 1.2.3 with and without the prefix, with a suffix, with a fourth segment,
\* with a sign
LongVersions ==
    {pre \o Semver(1, 2, 3) \o suf :
        pre \in {<<>>, <<"v">>, <<"-">>},
        suf \in {<<>>, <<"-", "a">>, <<".", "1">>}}

ParseInputs(maxLen) == SeqsUpTo(ParseChars, maxLen) \cup LongVersions

InitParse ==
    /\ op = "parseSemver"
    /\ pc = "call"
    /\ args \in [v : ParseInputs(MaxParseLen)]
    /\ out = None
    /\ MainIdle

\* parseSemver of the string, of the string behind a "v", and of the string
\* before a "-" suffix
CallParseSemver ==
    /\ op = "parseSemver"
    /\ pc = "call"
    /\ out' = [parsed |-> parseSemver(args.v),
               withV |-> parseSemver(<<"v">> \o args.v),
               withSuffix |-> parseSemver(args.v \o <<"-", "a">>)]
    /\ pc' = "done"
    /\ UNCHANGED <<op, args>>
    /\ UNCHANGED mainVars

NextParse == CallParseSemver

SpecParse == InitParse /\ [][NextParse]_vars

ParseDone == op = "parseSemver" /\ pc = "done"

\* the dot-separated segments of a version string behind its "v"
SegmentsOf(v) == Split(StripLeadingV(Trim(v)), ".")

\* a segment that is written as a non-negative integer
IsNonNegativeInteger(seg) == AllDigits(seg)

\* C11: parseSemver(v) is absent or has three non-negative integers; it is
\* absent for fewer than three dot-separated segments and when one of the
\* three segments (the third up to its first "-") is no non-negative integer;
\* a single leading "v" and a "-" suffix do not change the result.
C11_NonNegativeParse ==
    ParseDone =>
        LET segs == SegmentsOf(args.v) IN
        /\ out.parsed.ok =>
              out.parsed.major >= 0 /\ out.parsed.minor >= 0 /\ out.parsed.patch >= 0
        /\ Len(segs) < 3 => ~out.parsed.ok
        /\ (Len(segs) >= 3
               /\ \/ ~IsNonNegativeInteger(segs[1])
                  \/ ~IsNonNegativeInteger(segs[2])
                  \/ ~IsNonNegativeInteger(Split(segs[3], "-")[1]))
              => ~out.parsed.ok
        /\ (Trim(args.v) = <<>> \/ Head(Trim(args.v)) # "v") => out.withV = out.parsed
        /\ out.withSuffix = out.parsed

-----------------------------------------------------------------------------
(* Decoded JSON                                                            *)

\* A decoded JSON value is [t, s, items]: its type, its characters (a string,
\* or the digits of a number), and its elements (an array) or its entries in
\* insertion order (an object).  An entry is [t |-> "entry", s |-> key,
\* items |-> <<value>>].
JStr(s) == [t |-> "string", s |-> s, items |-> <<>>]

JNum(digits) == [t |-> "number", s |-> digits, items |-> <<>>]

JBool(b) == [t |-> "boolean", s |-> IF b THEN <<"t">> ELSE <<"f">>, items |-> <<>>]

JNull == [t |-> "null", s |-> <<>>, items |-> <<>>]

Undefined == [t |-> "undefined", s |-> <<>>, items |-> <<>>]

JArr(items) == [t |-> "array", s |-> <<>>, items |-> items]

JEntry(key, val) == [t |-> "entry", s |-> key, items |-> <<val>>]

JObj(entries) == [t |-> "object", s |-> <<>>, items |-> entries]

\* typeof v === 'object' && v !== null
IsObjectLike(v) == v.t \in {"object", "array"}

\* !!v
Truthy(v) ==
    CASE v.t = "string" -> v.s # <<>>
      [] v.t = "number" -> v.s # <<"0">>
      [] v.t = "boolean" -> v.s = <<"t">>
      [] v.t \in {"null", "undefined"} -> FALSE
      [] OTHER -> TRUE

\* obj.key: the property of an object, undefined when it has none (and for
\* every property this program reads of an array or a primitive)
Get(v, key) ==
    IF v.t = "object" /\ \E i \in 1..Len(v.items) : v.items[i].s = key
    THEN v.items[CHOOSE i \in 1..Len(v.items) : v.items[i].s = key].items[1]
    ELSE Undefined

\* Object.entries(v): the entries of an object in insertion order (no key of
\* the inputs is an array index), the elements of an array under their index
Entries(v) ==
    IF v.t = "object" THEN v.items
    ELSE IF v.t = "array"
         THEN [i \in 1..Len(v.items) |-> JEntry(Dec(i - 1), v.items[i])]
    ELSE <<>>

\* String(v) of a primitive; of an array, its elements joined by commas
RECURSIVE JsString(_)
RECURSIVE JoinFrom(_, _)
JsString(v) ==
    CASE v.t \in {"string", "number"} -> v.s
      [] v.t = "boolean" -> IF v.s = <<"t">> THEN <<"t", "r", "u", "e">>
                                             ELSE <<"f", "a", "l", "s", "e">>
      [] v.t = "null" -> <<"n", "u", "l", "l">>
      [] v.t = "undefined" -> <<"u", "n", "d", "e", "f", "i", "n", "e", "d">>
      [] v.t = "array" -> JoinFrom(v.items, 1)
      [] OTHER -> <<"[", "o", "b", "j", "e", "c", "t", " ", "O", "b", "j", "e", "c", "t", "]">>

JoinFrom(items, i) ==
    IF i > Len(items) THEN <<>>
    ELSE (IF items[i].t \in {"null", "undefined"} THEN <<>> ELSE JsString(items[i]))
         \o (IF i < Len(items) THEN <<",">> ELSE <<>>)
         \o JoinFrom(items, i + 1)

K_name == <<"n", "a", "m", "e">>

K_version == <<"v", "e", "r", "s", "i", "o", "n">>

K_dependencies == <<"d", "e", "p", "e", "n", "d", "e", "n", "c", "i", "e", "s">>

-----------------------------------------------------------------------------
(* flattenPackages                                                         *)

K_toString == <<"t", "o", "S", "t", "r", "i", "n", "g">>

\* String(v) and `${v}` raise a TypeError ("Cannot convert object to
\* primitive value"): v is an object with a toString property of its own,
\* which in decoded JSON is never a function, or an array that holds one.
RECURSIVE StringRaises(_)
StringRaises(v) ==
    \/ v.t = "object" /\ \E i \in 1..Len(v.items) : v.items[i].s = K_toString
    \/ v.t = "array" /\ \E i \in 1..Len(v.items) : StringRaises(v.items[i])

\* a === b: two primitives of one type and value; an object or an array is
\* identical to itself only, and no two nodes of decoded JSON share one
StrictEquals(a, b) == a = b /\ ~IsObjectLike(a)

\* `${name}@${version}`
PackageKey(name, version) == JsString(name) \o <<"@">> \o JsString(version)

\* visit(node, inferredName) on the state st = [seen, results, threw] of the
\* traversal, and the loop over the entries of node.dependencies from entry i
\* on; threw is set when the template literal of the key raises, and nothing
\* runs after that.
RECURSIVE visit(_, _, _)
RECURSIVE visitDeps(_, _, _)
visit(node, inferredName, st) ==
    IF st.threw \/ ~Truthy(node) \/ ~IsObjectLike(node) THEN st
    ELSE LET own      == Get(node, K_name)
             name     == IF Truthy(own) THEN own ELSE inferredName
             version  == Get(node, K_version)
             resolves == Truthy(name) /\ Truthy(version)
         IN  IF resolves /\ (StringRaises(name) \/ StringRaises(version))
             THEN [st EXCEPT !.threw = TRUE]
             ELSE LET key  == PackageKey(name, version)
                      st1  == IF resolves /\ key \notin st.seen
                              THEN [st EXCEPT !.seen = @ \cup {key},
                                              !.results = Append(@, [name |-> name,
                                                                     version |-> version])]
                              ELSE st
                      d    == Get(node, K_dependencies)
                      deps == IF Truthy(d) THEN d ELSE JObj(<<>>)
                  IN  IF IsObjectLike(deps) THEN visitDeps(Entries(deps), 1, st1) ELSE st1

visitDeps(entries, i, st) ==
    IF i > Len(entries) THEN st
    ELSE visitDeps(entries, i + 1, visit(entries[i].items[1], JStr(entries[i].s), st))

\* cmpVer on decoded values: a value that is no string does not parse
\* (parseSemver line 178) and is compared by its String(...)
cmpVerOf(a, b) ==
    LET pa == IF a.t = "string" THEN parseSemver(a.s) ELSE Unparsed
        pb == IF b.t = "string" THEN parseSemver(b.s) ELSE Unparsed
    IN  IF pa.ok /\ pb.ok THEN cmpVer(a.s, b.s)
        ELSE IF pa.ok /\ ~pb.ok THEN -1
        ELSE IF ~pa.ok /\ pb.ok THEN 1
        ELSE localeCompare(JsString(a), JsString(b))

\* the comparator of results.sort raises a TypeError ("a.name.localeCompare
\* is not a function"): the names differ and a's name is no string
cmpPackageRaises(a, b) == ~StrictEquals(a.name, b.name) /\ a.name.t # "string"

\* the comparator of results.sort, where it does not raise
cmpPackage(a, b) ==
    IF StrictEquals(a.name, b.name) THEN cmpVerOf(a.version, b.version)
    ELSE localeCompare(a.name.s, JsString(b.name))

Reverse(q) == [i \in 1..Len(q) |-> q[Len(q) + 1 - i]]

\* Array.prototype.sort on fewer than 64 elements (V8): the run that starts
\* the array is counted, each element compared with the one before it, and
\* reversed when it descends; every later element is then placed by binary
\* search among those before it.  The sort is stable.  runFrom gives the
\* length of the run whose elements before idx are known.
RECURSIVE runFrom(_, _, _)
runFrom(arr, idx, descending) ==
    IF idx > Len(arr) THEN [len |-> idx - 1, threw |-> FALSE]
    ELSE IF cmpPackageRaises(arr[idx], arr[idx - 1]) THEN [len |-> idx - 1, threw |-> TRUE]
    ELSE LET order == cmpPackage(arr[idx], arr[idx - 1]) IN
         IF (descending /\ order >= 0) \/ (~descending /\ order < 0)
         THEN [len |-> idx - 1, threw |-> FALSE]
         ELSE runFrom(arr, idx + 1, descending)

\* the place of pivot among arr[left + 1 .. right], by binary search
RECURSIVE searchPackage(_, _, _, _)
searchPackage(arr, pivot, left, right) ==
    IF left >= right THEN [pos |-> left, threw |-> FALSE]
    ELSE LET mid == left + ((right - left) \div 2) IN
         IF cmpPackageRaises(pivot, arr[mid + 1]) THEN [pos |-> left, threw |-> TRUE]
         ELSE IF cmpPackage(pivot, arr[mid + 1]) < 0 THEN searchPackage(arr, pivot, left, mid)
         ELSE searchPackage(arr, pivot, mid + 1, right)

\* binary insertion of the elements behind the first `sorted` ones
RECURSIVE insertPackages(_, _)
insertPackages(arr, sorted) ==
    IF sorted >= Len(arr) THEN [arr |-> arr, threw |-> FALSE]
    ELSE LET pivot == arr[sorted + 1]
             place == searchPackage(arr, pivot, 0, sorted)
         IN  IF place.threw THEN [arr |-> arr, threw |-> TRUE]
             ELSE insertPackages(SubSeq(arr, 1, place.pos) \o <<pivot>>
                                     \o SubSeq(arr, place.pos + 1, sorted)
                                     \o SubSeq(arr, sorted + 2, Len(arr)),
                                 sorted + 1)

\* the array with its first run made ascending
runAscending(ps, descending, len) ==
    IF descending THEN Reverse(SubSeq(ps, 1, len)) \o SubSeq(ps, len + 1, Len(ps)) ELSE ps

\* the sort once the direction of the first run is known
sortRun(ps, descending, run) ==
    IF run.threw THEN [arr |-> ps, threw |-> TRUE]
    ELSE insertPackages(runAscending(ps, descending, run.len), run.len)

\* results.sort(...): the sorted array, or the TypeError of the comparator
sortPackages(ps) ==
    IF Len(ps) < 2 THEN [arr |-> ps, threw |-> FALSE]
    ELSE IF cmpPackageRaises(ps[2], ps[1]) THEN [arr |-> ps, threw |-> TRUE]
    ELSE sortRun(ps, cmpPackage(ps[2], ps[1]) < 0, runFrom(ps, 3, cmpPackage(ps[2], ps[1]) < 0))

\* the traversal of flattenPackages
visited(tree) ==
    visit(tree, Get(tree, K_name), [seen |-> {}, results |-> <<>>, threw |-> FALSE])

\* The traversal, then the sort: the array flattenPackages returns, or the
\* TypeError it raises.  (The traversal is bound by a quantifier, so that it
\* is evaluated once.)
flattened(tree) ==
    CHOOSE r \in {IF st.threw THEN [arr |-> <<>>, threw |-> TRUE]
                  ELSE sortPackages(st.results) : st \in {visited(tree)}} : TRUE

\* flattenPackages raises: in the traversal or in the sort
flattenRaises(tree) == flattened(tree).threw

\* what flattenPackages returns when it does not raise
flattenPackages(tree) == flattened(tree).arr

-----------------------------------------------------------------------------
(* flattenPackages(tree) on every tree of a few nodes                      *)

MaxNodes == 3       \* nodes of a dependency tree

\* A tree is written <<name, version, deps>>: the node's own name and version
\* (<<>> for a node that has none) and its dependencies <<key, tree>>, in
\* the order the dependencies object enumerates them.
\* The names and versions of a node: neither, a version only, a name with
\* 1.0.1 in two string forms, and two pairs with an "@" in the name or in the
\* version.
NodeKinds ==
    {<< <<>>, <<>> >>,
     << <<>>, Semver(1, 0, 1) >>,
     << <<"a">>, Semver(1, 0, 1) >>,
     << <<"a">>, <<"v">> \o Semver(1, 0, 1) >>,
     << <<"a">>, <<"c", "@">> \o Semver(1, 0, 1) >>,
     << <<"a", "@", "c">>, Semver(1, 0, 1) >>}

\* the keys of a dependencies object
DepKeys == {<<"a">>, <<"c">>}

\* the dependencies of up to two entries whose subtrees have n nodes
RECURSIVE TreesOfSize(_)
DepsOfSize(n) ==
    IF n = 0 THEN {<<>>}
    ELSE {<< <<k, c>> >> : k \in DepKeys, c \in TreesOfSize(n)}
         \cup UNION {{<< <<ks[1], c1>>, <<ks[2], c2>> >> :
                         ks \in {p \in DepKeys \X DepKeys : p[1] # p[2]},
                         c1 \in TreesOfSize(i), c2 \in TreesOfSize(n - i)} :
                     i \in 1..(n - 1)}

TreesOfSize(n) ==
    {<<kind[1], kind[2], deps>> : kind \in NodeKinds, deps \in DepsOfSize(n - 1)}

\* the trees of at most n nodes
TreesUpTo(n) == UNION {TreesOfSize(k) : k \in 1..n}

\* the decoded JSON of a tree: the object of each node with the properties
\* it has, in npm ls order
RECURSIVE Decoded(_)
Decoded(t) ==
    JObj((IF t[1] = <<>> THEN <<>> ELSE <<JEntry(K_name, JStr(t[1]))>>)
         \o (IF t[2] = <<>> THEN <<>> ELSE <<JEntry(K_version, JStr(t[2]))>>)
         \o (IF t[3] = <<>> THEN <<>>
             ELSE <<JEntry(K_dependencies,
                           JObj([i \in 1..Len(t[3]) |->
                                    JEntry(t[3][i][1], Decoded(t[3][i][2]))]))>>))

\* the same tree with the entries of every dependencies object enumerated in
\* the opposite order
RECURSIVE Mirror(_)
Mirror(t) ==
    <<t[1], t[2], Reverse([i \in 1..Len(t[3]) |-> <<t[3][i][1], Mirror(t[3][i][2])>>])>>

InitFlatten ==
    /\ op = "flattenPackages"
    /\ pc = "call"
    /\ args \in [tree : TreesUpTo(MaxNodes)]
    /\ out = None
    /\ MainIdle

CallFlatten ==
    /\ op = "flattenPackages"
    /\ pc = "call"
    /\ \E tree \in {Decoded(args.tree)}, mirrored \in {Decoded(Mirror(args.tree))} :
          out' = [result |-> flattenPackages(tree), reordered |-> flattenPackages(mirrored)]
    /\ pc' = "done"
    /\ UNCHANGED <<op, args>>
    /\ UNCHANGED mainVars

NextFlatten == CallFlatten

SpecFlatten == InitFlatten /\ [][NextFlatten]_vars

-----------------------------------------------------------------------------
(* Claims about flattenPackages                                            *)

FlattenDone == op = "flattenPackages" /\ pc = "done"

\* The nodes of a tree as the traversal reaches them: the name and version
\* each resolves to, and whether it lies below a node that was skipped.
RECURSIVE Reached(_, _, _)
Reached(node, inferredName, belowSkipped) ==
    LET own      == Get(node, K_name)
        name     == IF Truthy(own) THEN own ELSE inferredName
        version  == Get(node, K_version)
        resolves == Truthy(name) /\ Truthy(version)
        deps     == Get(node, K_dependencies).items
    IN  {[name |-> name, version |-> version, resolves |-> resolves,
          belowSkipped |-> belowSkipped]}
        \cup UNION {Reached(deps[i].items[1], JStr(deps[i].s), belowSkipped \/ ~resolves) :
                       i \in 1..Len(deps)}

ReachedNodes == Reached(Decoded(args.tree), Get(Decoded(args.tree), K_name), FALSE)

PairOf(r) == [name |-> r.name, version |-> r.version]

Emitted == {out.result[i] : i \in 1..Len(out.result)}

\* C7: the result holds exactly one entry for each distinct (name, version)
\* pair that resolves at a reachable node: none twice, none missing.
C7_OneEntryPerPair ==
    FlattenDone =>
        /\ NoDup(out.result)
        /\ Emitted = {PairOf(r) : r \in {x \in ReachedNodes : x.resolves}}

\* C8: the result is the same sequence for a tree and for the tree that
\* differs from it only in the enumeration order of its dependency entries.
C8_OrderIndependent ==
    FlattenDone => out.result = out.reordered

\* C9: a node is emitted if and only if its name and its version resolve, and
\* the children of a skipped node are traversed: every entry is the pair of a
\* node that resolves, every node that resolves has its pair in the result,
\* among them every one below a skipped node.
C9_EmittedIffResolved ==
    FlattenDone =>
        /\ \A e \in Emitted : \E r \in ReachedNodes : r.resolves /\ PairOf(r) = e
        /\ \A r \in ReachedNodes : r.resolves => PairOf(r) \in Emitted
        /\ \A r \in ReachedNodes :
              (r.belowSkipped /\ r.resolves) => PairOf(r) \in Emitted

-----------------------------------------------------------------------------
(* normalizeMalwareList                                                    *)

K_ecosystem == <<"e", "c", "o", "s", "y", "s", "t", "e", "m">>

K_package == <<"p", "a", "c", "k", "a", "g", "e">>

K_package_name == <<"p", "a", "c", "k", "a", "g", "e", "_", "n", "a", "m", "e">>

K_pkg == <<"p", "k", "g">>

K_module == <<"m", "o", "d", "u", "l", "e">>

K_versions == <<"v", "e", "r", "s", "i", "o", "n", "s">>

K_affected_versions ==
    <<"a", "f", "f", "e", "c", "t", "e", "d", "_", "v", "e", "r", "s", "i", "o", "n", "s">>

K_affected == <<"a", "f", "f", "e", "c", "t", "e", "d">>

K_affected_version ==
    <<"a", "f", "f", "e", "c", "t", "e", "d", "_", "v", "e", "r", "s", "i", "o", "n">>

K_npm == <<"n", "p", "m">>

\* the container keys walkObject recurses into
ContainerKeys ==
    {K_npm, <<"p", "a", "c", "k", "a", "g", "e", "s">>, K_package, <<"d", "a", "t", "a">>,
     <<"m", "a", "l", "w", "a", "r", "e">>,
     <<"m", "a", "l", "w", "a", "r", "e", "_", "p", "r", "e", "d", "i", "c", "t", "i", "o", "n", "s">>}

\* toLowerCase, on the upper-case letters of the inputs
LowerChar(c) ==
    CASE c = "N" -> "n" [] c = "P" -> "p" [] c = "M" -> "m" [] OTHER -> c

\* toLowerCase that leaves every letter as it is
ToLowerCase_asIs(s) == s

ToLowerCase(s) == [i \in 1..Len(s) |-> LowerChar(s[i])]

\* the length of the run of digits of s from position i
RECURSIVE DigitRun(_, _)
DigitRun(s, i) ==
    IF i <= Len(s) /\ s[i] \in Digits THEN 1 + DigitRun(s, i + 1) ELSE 0

\* /\d+\.\d+\.\d+/ matches at position i
MatchesAt(s, i) ==
    LET a == DigitRun(s, i)
        b == DigitRun(s, i + a + 1)
    IN  /\ a > 0
        /\ i + a <= Len(s) /\ s[i + a] = "."
        /\ b > 0
        /\ i + a + 1 + b <= Len(s) /\ s[i + a + 1 + b] = "."
        /\ DigitRun(s, i + a + 2 + b) > 0

isSemverish(v) == v.t = "string" /\ \E i \in 1..Len(v.s) : MatchesAt(v.s, i)

IsArray(v) == v.t = "array"

\* The map after normalizeMalwareList raised a TypeError: a key that is no
\* string, with an empty set, which no add gives a key.  Nothing runs after
\* the raise, so the map stays as it is.
TypeError == [n \in {<<"TypeError">>} |-> <<>>]

Threw(map) == <<"TypeError">> \in DOMAIN map

\* add(name, version), on the map; String(name) and String(version) may raise
add(map, name, version) ==
    IF Threw(map) THEN map
    ELSE IF ~Truthy(name) \/ ~Truthy(version) THEN map
    ELSE IF StringRaises(name) \/ StringRaises(version) THEN TypeError
    ELSE MapAdd(map, JsString(name), JsString(version))

\* addMany(name, arr): for (const v of arr) add(name, v), from element i on
RECURSIVE addFrom(_, _, _, _)
addFrom(map, name, items, i) ==
    IF i > Len(items) THEN map
    ELSE addFrom(add(map, name, items[i]), name, items, i + 1)

addMany(map, name, arr) ==
    IF ~Truthy(name) \/ ~IsArray(arr) THEN map ELSE addFrom(map, name, arr.items, 1)

HasProperty(v, key) == v.t = "object" /\ \E i \in 1..Len(v.items) : v.items[i].s = key

\* the name of a record read from its name field only
EntryName_nameOnly(entry) ==
    IF Truthy(Get(entry, K_name)) THEN Get(entry, K_name) ELSE JNull

\* entry.name || entry.package || entry.package_name || entry.pkg ||
\* entry.module || null
EntryName(entry) ==
    IF Truthy(Get(entry, K_name)) THEN Get(entry, K_name)
    ELSE IF Truthy(Get(entry, K_package)) THEN Get(entry, K_package)
    ELSE IF Truthy(Get(entry, K_package_name)) THEN Get(entry, K_package_name)
    ELSE IF Truthy(Get(entry, K_pkg)) THEN Get(entry, K_pkg)
    ELSE IF Truthy(Get(entry, K_module)) THEN Get(entry, K_module)
    ELSE JNull

addIfString(map, name, v) == IF v.t = "string" THEN add(map, name, v) ELSE map

considerEntry(map, entry) ==
    IF Threw(map) THEN map
    ELSE IF ~Truthy(entry) \/ ~IsObjectLike(entry) THEN map
    ELSE IF HasProperty(entry, K_ecosystem) /\ StringRaises(Get(entry, K_ecosystem))
         THEN TypeError
    ELSE IF HasProperty(entry, K_ecosystem)
            /\ ToLowerCase(JsString(Get(entry, K_ecosystem))) # K_npm THEN map
    ELSE LET name == EntryName(entry) IN
         IF ~Truthy(name) THEN map
         ELSE LET m1 == addMany(map, name, Get(entry, K_versions))
                  m2 == addMany(m1, name, Get(entry, K_affected_versions))
                  m3 == addMany(m2, name, Get(entry, K_affected))
                  m4 == addIfString(m3, name, Get(entry, K_version))
              IN  addIfString(m4, name, Get(entry, K_affected_version))

\* for (const item of v) considerEntry(item), from element i on
RECURSIVE considerFrom(_, _, _)
considerFrom(map, items, i) ==
    IF i > Len(items) THEN map
    ELSE considerFrom(considerEntry(map, items[i]), items, i + 1)

\* v.length && v.every(isSemverish)
AllSemverish(v) ==
    IsArray(v) /\ v.items # <<>> /\ \A i \in 1..Len(v.items) : isSemverish(v.items[i])

\* the heuristic for a nested mapping name -> versions[], from entry i on
RECURSIVE nestedFrom(_, _, _)
nestedFrom(map, entries, i) ==
    IF i > Len(entries) THEN map
    ELSE LET nk == entries[i].s
             nv == entries[i].items[1]
         IN  nestedFrom(IF AllSemverish(nv) THEN addMany(map, JStr(nk), nv) ELSE map,
                        entries, i + 1)

\* walkObject(obj), as the loop over Object.entries(obj) from entry i on
RECURSIVE walkFrom(_, _, _)
walkFrom(map, entries, i) ==
    IF i > Len(entries) THEN map
    ELSE LET k == entries[i].s
             v == entries[i].items[1]
             m == IF IsArray(v)
                  THEN (IF AllSemverish(v) THEN addMany(map, JStr(k), v)
                        ELSE considerFrom(map, v.items, 1))
                  ELSE IF Truthy(v) /\ IsObjectLike(v)
                  THEN (IF k \in ContainerKeys THEN walkFrom(map, Entries(v), 1)
                        ELSE nestedFrom(map, Entries(v), 1))
                  ELSE IF isSemverish(v) THEN add(map, JStr(k), v)
                  ELSE map
         IN  walkFrom(m, entries, i + 1)

walkObject(map, obj) == walkFrom(map, Entries(obj), 1)

\* the map normalizeMalwareList returns, or TypeError
normalizeMalwareList(data) ==
    IF IsArray(data) THEN considerFrom(EmptyMap, data.items, 1)
    ELSE IF Truthy(data) /\ IsObjectLike(data) THEN walkObject(EmptyMap, data)
    ELSE EmptyMap

normalizeRaises(data) == Threw(normalizeMalwareList(data))

-----------------------------------------------------------------------------
(* normalizeMalwareList(data) on the three shapes of a list of facts       *)

MaxFeedFacts == 3   \* (name, version) facts of a feed, repetitions included

\* version strings that hold a dotted numeric pattern, and two that do not
FeedVersions ==
    {Semver(1, 0, 1), <<"v">> \o Semver(1, 0, 1), Dec(1) \o <<".">> \o Dec(0), <<"a">>}

\* { name, version }
Rec(name, version) == JObj(<<JEntry(K_name, JStr(name)), JEntry(K_version, JStr(version))>>)

\* every sequence of up to n facts, a fact repeated or not
FactLists(n) == SeqsUpTo(Packages(FeedVersions), n)

AsSet(q) == {q[i] : i \in 1..Len(q)}

FactNames(facts) == {facts[i].name : i \in 1..Len(facts)}

VersionsOf(facts, n) == {facts[i].version : i \in {j \in 1..Len(facts) : facts[j].name = n}}

\* the names of the facts in the order of their first occurrence
RECURSIVE NamesInOrder(_)
NamesInOrder(facts) ==
    IF facts = <<>> THEN <<>>
    ELSE LET before == NamesInOrder(SubSeq(facts, 1, Len(facts) - 1))
             n      == facts[Len(facts)].name
         IN  IF n \in AsSet(before) THEN before ELSE Append(before, n)

\* the array of the versions the facts give a name, in order
VersionArray(facts, n) ==
    LET of == SelectSeq(facts, LAMBDA f : f.name = n)
    IN  JArr([i \in 1..Len(of) |-> JStr(of[i].version)])

\* { name: [version, ...], ... }
ShapeMap(facts) ==
    LET ns == NamesInOrder(facts)
    IN  JObj([i \in 1..Len(ns) |-> JEntry(ns[i], VersionArray(facts, ns[i]))])

\* [ { name, version }, ... ]
ShapeRecords(facts) ==
    JArr([i \in 1..Len(facts) |-> Rec(facts[i].name, facts[i].version)])

\* [ { package, versions: [...], ecosystem: "npm" }, ... ]
ShapePackages(facts) ==
    LET ns == NamesInOrder(facts)
    IN  JArr([i \in 1..Len(ns) |->
                 JObj(<<JEntry(K_package, JStr(ns[i])),
                        JEntry(K_versions, VersionArray(facts, ns[i])),
                        JEntry(K_ecosystem, JStr(K_npm))>>)])

InitShapes ==
    /\ op = "normalizeMalwareList"
    /\ pc = "call"
    /\ args \in [facts : FactLists(MaxFeedFacts)]
    /\ out = None
    /\ MainIdle

CallNormalizeShapes ==
    /\ op = "normalizeMalwareList"
    /\ pc = "call"
    /\ out' = [byName   |-> normalizeMalwareList(ShapeMap(args.facts)),
               records  |-> normalizeMalwareList(ShapeRecords(args.facts)),
               packages |-> normalizeMalwareList(ShapePackages(args.facts))]
    /\ pc' = "done"
    /\ UNCHANGED <<op, args>>
    /\ UNCHANGED mainVars

NextShapes == CallNormalizeShapes

SpecShapes == InitShapes /\ [][NextShapes]_vars

ShapesDone == op = "normalizeMalwareList" /\ pc = "done"

\* the keys of the map are the names of the facts, and the set of each key
\* holds the versions of that name, each once
CarriesExactly(map, facts) ==
    /\ DOMAIN map = FactNames(facts)
    /\ \A n \in DOMAIN map : AsSet(map[n]) = VersionsOf(facts, n) /\ NoDup(map[n])

SameAdvisoryMap(m1, m2) ==
    DOMAIN m1 = DOMAIN m2 /\ \A n \in DOMAIN m1 : AsSet(m1[n]) = AsSet(m2[n])

AllShapesCarry ==
    /\ CarriesExactly(out.byName, args.facts)
    /\ CarriesExactly(out.records, args.facts)
    /\ CarriesExactly(out.packages, args.facts)
    /\ SameAdvisoryMap(out.byName, out.records)
    /\ SameAdvisoryMap(out.records, out.packages)

VersionLike(s) == isSemverish(JStr(s))

\* C12 as stated: whatever the version strings of the facts, the map shape,
\* the {name, version} records and the {package, versions, ecosystem} records
\* normalize to the same map, whose keys are the fact names and whose sets
\* are the fact versions, repeated facts collapsed.
C12_ShapesAgree ==
    ShapesDone => AllShapesCarry

\* C12 amended: the three shapes normalize to that same map when every
\* version string of the facts holds a dotted numeric pattern
\* digits.digits.digits; the two record shapes do so for every version string.
C12_ShapesAgreeOnVersionLike ==
    ShapesDone =>
        /\ (\A i \in 1..Len(args.facts) : VersionLike(args.facts[i].version))
              => AllShapesCarry
        /\ CarriesExactly(out.records, args.facts)
        /\ CarriesExactly(out.packages, args.facts)

\* three facts of version-like strings, one of them repeated, over two names
C12_Witness ==
    /\ ShapesDone
    /\ Len(args.facts) = 3
    /\ \A i \in 1..3 : VersionLike(args.facts[i].version)
    /\ args.facts[1] = args.facts[3]
    /\ Cardinality(FactNames(args.facts)) = 2
    /\ Cardinality(DOMAIN out.byName) = 2
    /\ out.byName = out.records /\ out.records = out.packages

-----------------------------------------------------------------------------
(* normalizeMalwareList(data) on feeds of records with ecosystem tags      *)

MaxRecords == 2     \* records of a feed

\* A record is written [nameKey, name, versionKey, versions, tag]: the field
\* that names it, the field that carries its versions (a string under
\* version, an array under the other fields), and its ecosystem tag
\* (Undefined for a record that has none).
RecordNames == {<<K_name, <<"a">> >>, <<K_package, <<"c">> >>}

RecordVersions ==
    {<<K_version, <<Semver(1, 0, 1)>> >>,
     <<K_versions, <<Semver(1, 0, 1), <<"a">> >> >>,
     <<K_affected_versions, <<Semver(1, 0, 2)>> >>}

\* "npm" in three letter cases
NpmSpellings == {K_npm, <<"N", "P", "M">>, <<"n", "P", "m">>}

\* no tag, npm in three letter cases, another ecosystem, the empty string,
\* null
Tags ==
    {Undefined, JNull, JStr(<<>>), JStr(<<"p", "y", "p", "i">>)}
    \cup {JStr(s) : s \in NpmSpellings}

Records ==
    {[nameKey |-> n[1], name |-> n[2], versionKey |-> v[1], versions |-> v[2], tag |-> g] :
        n \in RecordNames, v \in RecordVersions, g \in Tags}

\* the decoded JSON of a record
DecodedRecord(r) ==
    JObj(<<JEntry(r.nameKey, JStr(r.name)),
           JEntry(r.versionKey,
                  IF r.versionKey = K_version THEN JStr(r.versions[1])
                  ELSE JArr([i \in 1..Len(r.versions) |-> JStr(r.versions[i])]))>>
         \o (IF r.tag = Undefined THEN <<>> ELSE <<JEntry(K_ecosystem, r.tag)>>))

\* the decoded feed: the array of the records, at the top or under "data"
DecodedFeed(records, wrapped) ==
    LET arr == JArr([i \in 1..Len(records) |-> DecodedRecord(records[i])])
    IN  IF wrapped THEN JObj(<<JEntry(<<"d", "a", "t", "a">>, arr)>>) ELSE arr

InitEcosystem ==
    /\ op = "considerEntry"
    /\ pc = "call"
    /\ args \in [records : SeqsUpTo(Records, MaxRecords), wrapped : BOOLEAN]
    /\ out = None
    /\ MainIdle

CallNormalizeRecords ==
    /\ op = "considerEntry"
    /\ pc = "call"
    /\ out' = [map |-> normalizeMalwareList(DecodedFeed(args.records, args.wrapped))]
    /\ pc' = "done"
    /\ UNCHANGED <<op, args>>
    /\ UNCHANGED mainVars

NextEcosystem == CallNormalizeRecords

SpecEcosystem == InitEcosystem /\ [][NextEcosystem]_vars

EcosystemDone == op = "considerEntry" /\ pc = "done"

\* the record carries a tag that is not npm in any letter case
OtherEcosystem(r) == r.tag # Undefined /\ ~(r.tag.t = "string" /\ r.tag.s \in NpmSpellings)

\* the (name, version) facts of one record, of the records from i on
FactsOfRecord(r) == [i \in 1..Len(r.versions) |-> [name |-> r.name, version |-> r.versions[i]]]

RECURSIVE FactsOfRecords(_)
FactsOfRecords(records) ==
    IF records = <<>> THEN <<>>
    ELSE (IF OtherEcosystem(Head(records)) THEN <<>> ELSE FactsOfRecord(Head(records)))
         \o FactsOfRecords(Tail(records))

\* C13: a record tagged with an ecosystem that is not npm in any letter case
\* contributes no fact, whatever its name and version fields; the map holds
\* exactly the facts of the other records (untagged, or tagged npm in any
\* letter case), so it is empty when every record is tagged otherwise.
C13_EcosystemFilter ==
    EcosystemDone =>
        /\ CarriesExactly(out.map, FactsOfRecords(args.records))
        /\ (\A i \in 1..Len(args.records) : OtherEcosystem(args.records[i]))
              => out.map = EmptyMap

\* a record tagged pypi and a record tagged NPM: only the second is in the map
C13_Witness ==
    /\ EcosystemDone
    /\ Len(args.records) = 2
    /\ args.records[1].tag = JStr(<<"p", "y", "p", "i">>)
    /\ args.records[2].tag = JStr(<<"N", "P", "M">>)
    /\ args.records[1].name # args.records[2].name
    /\ DOMAIN out.map = {args.records[2].name}

-----------------------------------------------------------------------------
(* normalizeMalwareList(data) and flattenPackages(data) on decoded JSON of *)
(* every type                                                              *)

MaxTypedNodes == 2  \* nodes of a tree whose fields are of every type

\* an object with a toString property
Stringless == JObj(<<JEntry(K_toString, JNull)>>)

\* a name field: missing, a string, two numbers, 0, null, an object
TypedNames ==
    {Undefined, JStr(<<"a">>), JNum(<<"1">>), JNum(<<"2">>), JNum(<<"0">>), JNull, Stringless}

\* a version field: missing, a string, a number, null
TypedVersions == {Undefined, JStr(Semver(1, 0, 1)), JNum(<<"1">>), JNull}

\* the object of the fields that are not missing
ObjectOf(fields) ==
    JObj(SelectSeq([i \in 1..Len(fields) |-> JEntry(fields[i][1], fields[i][2])],
                   LAMBDA e : e.items[1] # Undefined))

\* the nodes of n nodes: the dependencies are missing, null, a string, an
\* object of one child, an array of one child
RECURSIVE TypedTrees(_)
TypedTrees(n) ==
    {ObjectOf(<< <<K_name, name>>, <<K_version, version>>, <<K_dependencies, deps>> >>) :
        name \in TypedNames, version \in TypedVersions,
        deps \in IF n = 1 THEN {Undefined, JNull, JStr(<<"a">>)}
                 ELSE {JObj(<<JEntry(<<"a">>, c)>>) : c \in TypedTrees(n - 1)}
                      \cup {JArr(<<c>>) : c \in TypedTrees(n - 1)}}

\* records whose name, version, versions and ecosystem are of every type
TypedRecords ==
    {ObjectOf(<< <<K_name, name>>, <<K_version, version>>, <<K_versions, versions>>,
                 <<K_ecosystem, ecosystem>> >>) :
        name \in {Undefined, JStr(<<"a">>), JNum(<<"1">>), JNull, Stringless},
        version \in TypedVersions \cup {JArr(<<JStr(Semver(1, 0, 1))>>)},
        versions \in {Undefined, JStr(Semver(1, 0, 1)), JObj(<<>>),
                      JArr(<<JStr(Semver(1, 0, 1)), JNum(<<"1">>), JNull>>)},
        ecosystem \in {Undefined, JNum(<<"1">>), Stringless}}

\* a value that is no object, the empty array, the empty object
Roots == {JNull, JBool(TRUE), JNum(<<"1">>), JStr(<<"a">>), JArr(<<>>), JObj(<<>>)}

\* the decoded values: roots, trees, and records in an array, under a key,
\* and in an array under a container key
CoreInputs(maxNodes) ==
    Roots
    \cup UNION {TypedTrees(n) : n \in 1..maxNodes}
    \cup {JArr(<<r>>) : r \in TypedRecords}
    \cup {JObj(<<JEntry(<<"a">>, r)>>) : r \in TypedRecords}
    \cup {JObj(<<JEntry(<<"d", "a", "t", "a">>, JArr(<<r, r>>))>>) : r \in TypedRecords}

InitCore ==
    /\ op = "core"
    /\ pc = "call"
    /\ args \in [data : CoreInputs(MaxTypedNodes)]
    /\ out = None
    /\ MainIdle

\* normalizeMalwareList(data) and flattenPackages(data): whether each raises
CallCore ==
    /\ op = "core"
    /\ pc = "call"
    /\ out' = [normalizeRaised |-> normalizeRaises(args.data),
               flattenRaised |-> flattenRaises(args.data)]
    /\ pc' = "done"
    /\ UNCHANGED <<op, args>>
    /\ UNCHANGED mainVars

NextCore == CallCore

SpecCore == InitCore /\ [][NextCore]_vars

CoreDone == op = "core" /\ pc = "done"

\* C14: on every decoded JSON value (a root that is missing or no object,
\* nodes and records whose name or version is missing or of another type)
\* normalizeMalwareList and flattenPackages return and never raise.
C14_NeverRaise ==
    CoreDone => ~out.normalizeRaised /\ ~out.flattenRaised

-----------------------------------------------------------------------------
(* main                                                                    *)

\* WORMSCAN_PATCH_DISTANCE: unset (undefined), or a string
RawDistances ==
    {Undefined, JStr(<<>>), JStr(<<"0">>), JStr(<<"2">>), JStr(<<"-", "1">>), JStr(<<"a">>),
     JStr(<<"2", ".", "0">>), JStr(<<"2", ".">>), JStr(<<"1", ".", "5">>)}

\* the patchDistance of main
PatchDistanceOf(raw) ==
    IF raw.t = "undefined" \/ raw.s = <<>> THEN 1
    ELSE LET n == ToNumber(raw.s) IN
         IF IsInteger(n) /\ n.val >= 0 THEN n.val ELSE 1

\* decoded malware feeds: a map name -> versions[], records of name and
\* version, records of package, versions and ecosystem, an empty feed, null,
\* and a record whose name is an object with a toString property
MainFeeds ==
    {JObj(<<JEntry(<<"a">>, JArr(<<JStr(Semver(1, 0, 1))>>))>>),
     JArr(<<Rec(<<"a">>, Semver(1, 0, 2)), Rec(<<"c">>, <<"c", "@">> \o Semver(1, 0, 1))>>),
     JArr(<<JObj(<<JEntry(K_package, JStr(<<"a", "@", "c">>)),
                   JEntry(K_versions, JArr(<<JStr(Semver(1, 0, 1)), JStr(Semver(1, 0, 0))>>)),
                   JEntry(K_ecosystem, JStr(<<"N", "P", "M">>))>>)>>),
     JArr(<<JObj(<<JEntry(K_name, JStr(<<"a">>)), JEntry(K_version, JStr(Semver(1, 0, 1))),
                   JEntry(K_ecosystem, JStr(<<"p", "y", "p", "i">>))>>)>>),
     JObj(<<>>),
     JNull,
     JArr(<<JObj(<<JEntry(K_name, JObj(<<JEntry(K_toString, JNull)>>)),
                   JEntry(K_version, JStr(Semver(1, 0, 1)))>>)>>)}

\* decoded npm trees: the trees of one and two nodes, null, and two nodes
\* whose names are the numbers 1 and 2
MainTrees ==
    {Decoded(t) : t \in TreesUpTo(2)}
    \cup {JNull,
          JObj(<<JEntry(K_name, JNum(<<"1">>)), JEntry(K_version, JStr(Semver(1, 0, 1))),
                 JEntry(K_dependencies,
                        JObj(<<JEntry(<<"a">>,
                                      JObj(<<JEntry(K_name, JNum(<<"2">>)),
                                             JEntry(K_version, JStr(Semver(1, 0, 1)))>>))>>))>>)}

\* why fetchMalwareList rejects: fetch or readFile fails, the response is not
\* ok, the text is no JSON
FeedFailures == {"fetch failed", "HTTP status", "Failed to parse JSON"}

\* why readNpmTree rejects: readFile fails, npm does not spawn, npm prints
\* nothing, the text is no JSON
TreeFailures == {"read failed", "Failed to spawn npm ls", "npm ls failed", "Failed to parse JSON"}

Pending == [state |-> "pending", value |-> Undefined]

Resolved(v) == [state |-> "resolved", value |-> v]

Rejected(why) == [state |-> "rejected", value |-> JStr(<<why>>)]

\* the number of findings of a level, as printFindings counts them
RECURSIVE CountLevel(_, _)
CountLevel(findings, level) ==
    IF findings = <<>> THEN 0
    ELSE (IF Head(findings).level = level THEN 1 ELSE 0) + CountLevel(Tail(findings), level)

\* printFindings: the findings it prints, in order, and its counts
printFindings(findings) ==
    [printed |-> findings,
     criticals |-> CountLevel(findings, "critical"),
     warnings |-> Len(findings) - CountLevel(findings, "critical")]

\* the exit code with the test of the count off by one
ExitCodeOf_moreThanOne(criticals) == IF criticals > 1 THEN 2 ELSE 0

\* process.exit(criticals > 0 ? 2 : 0)
ExitCodeOf(criticals) == IF criticals > 0 THEN 2 ELSE 0

InitMain ==
    /\ op = "main"
    /\ pc = "start"
    /\ args \in [rawDistance : RawDistances]
    /\ out = None
    /\ MainIdle

\* main up to its await: both retrievals are started
MainStart ==
    /\ op = "main"
    /\ pc = "start"
    /\ pc' = "await"
    /\ malwareRaw' = Pending
    /\ treeRaw' = Pending
    /\ UNCHANGED <<op, args, out, stdout, exitCode>>

\* fetchMalwareList() resolves with the decoded feed
FeedResolves ==
    /\ op = "main"
    /\ pc = "await"
    /\ malwareRaw.state = "pending"
    /\ \E data \in MainFeeds : malwareRaw' = Resolved(data)
    /\ UNCHANGED <<op, pc, args, out, treeRaw, stdout, exitCode>>

\* fetchMalwareList() rejects
FeedRejects ==
    /\ op = "main"
    /\ pc = "await"
    /\ malwareRaw.state = "pending"
    /\ \E why \in FeedFailures : malwareRaw' = Rejected(why)
    /\ UNCHANGED <<op, pc, args, out, treeRaw, stdout, exitCode>>

\* readNpmTree() resolves with the decoded tree
TreeResolves ==
    /\ op = "main"
    /\ pc = "await"
    /\ treeRaw.state = "pending"
    /\ \E t \in MainTrees : treeRaw' = Resolved(t)
    /\ UNCHANGED <<op, pc, args, out, malwareRaw, stdout, exitCode>>

\* readNpmTree() rejects
TreeRejects ==
    /\ op = "main"
    /\ pc = "await"
    /\ treeRaw.state = "pending"
    /\ \E why \in TreeFailures : treeRaw' = Rejected(why)
    /\ UNCHANGED <<op, pc, args, out, malwareRaw, stdout, exitCode>>

\* The installed packages scan can match: a name that is no string is no
\* key of the map, and a version that is no string is no member of a set and
\* does not parse, so such a package never gets a finding.
StringTyped(installed) ==
    LET typed == SelectSeq(installed, LAMBDA p : p.name.t = "string" /\ p.version.t = "string")
    IN  [i \in 1..Len(typed) |-> [name |-> typed[i].name.s, version |-> typed[i].version.s]]

\* normalizeMalwareList or flattenPackages raises inside main's try block
CoreRaises ==
    normalizeRaises(malwareRaw.value) \/ flattenRaises(treeRaw.value)

\* the await that goes on as soon as one of the two promises is resolved
PromiseAllResolved_either ==
    malwareRaw.state = "resolved" \/ treeRaw.state = "resolved"

\* await Promise.all([...]) goes on: both promises are resolved
PromiseAllResolved ==
    malwareRaw.state = "resolved" /\ treeRaw.state = "resolved"

\* Promise.all resolved: the rest of the try block, to process.exit, and
\* the catch block when normalizeMalwareList or flattenPackages raises.  (The
\* values are bound by quantifiers, so that each is evaluated once.)
MainScan ==
    /\ op = "main"
    /\ pc = "await"
    /\ PromiseAllResolved
    /\ IF CoreRaises
       THEN /\ exitCode' = 1
            /\ pc' = "caught"
            /\ UNCHANGED <<out, stdout>>
       ELSE /\ \E patchDistance \in {PatchDistanceOf(args.rawDistance)},
                  malwareMap \in {normalizeMalwareList(malwareRaw.value)},
                  installed \in {flattenPackages(treeRaw.value)} :
                  \E findings \in {scan(StringTyped(installed), malwareMap, patchDistance)} :
                     \E counts \in {printFindings(findings)} :
                        /\ out' = [malwareMap |-> malwareMap, installed |-> installed,
                                   patchDistance |-> patchDistance, findings |-> findings]
                        /\ stdout' = counts.printed
                        /\ exitCode' = ExitCodeOf(counts.criticals)
            /\ pc' = "exited"
    /\ UNCHANGED <<op, args, malwareRaw, treeRaw>>

\* Promise.all rejected with the first rejection: the catch block
MainCatch ==
    /\ op = "main"
    /\ pc = "await"
    /\ malwareRaw.state = "rejected" \/ treeRaw.state = "rejected"
    /\ exitCode' = 1
    /\ pc' = "caught"
    /\ UNCHANGED <<op, args, out, malwareRaw, treeRaw, stdout>>

Next ==
    \/ MainStart
    \/ FeedResolves
    \/ FeedRejects
    \/ TreeResolves
    \/ TreeRejects
    \/ MainScan
    \/ MainCatch

Spec == InitMain /\ [][Next]_vars

-----------------------------------------------------------------------------
(* Claims about main                                                       *)

\* main has called process.exit: after printFindings, or in the catch block
Exited == op = "main" /\ pc \in {"exited", "caught"}

RetrievalFailed == malwareRaw.state = "rejected" \/ treeRaw.state = "rejected"

HasLevel(findings, level) == \E i \in 1..Len(findings) : findings[i].level = level

\* C1: main exits with 1 when a retrieval failed or gave undecodable input,
\* with 2 when there is a findings list and it holds a critical finding, and
\* with 0 when it holds only warnings or nothing; it exits with no other
\* code.
C1_ExitCode ==
    Exited =>
        /\ exitCode \in {0, 1, 2}
        /\ RetrievalFailed => exitCode = 1
        /\ pc = "exited" =>
              /\ ~RetrievalFailed
              /\ exitCode = IF HasLevel(out.findings, "critical") THEN 2 ELSE 0
        /\ pc = "caught" => exitCode = 1

\* both retrievals succeeded and main exits with 2 on one critical finding
\* and one warning
C1_Witness ==
    /\ pc = "exited"
    /\ op = "main"
    /\ ~RetrievalFailed
    /\ exitCode = 2
    /\ Len(out.findings) = 2
    /\ HasLevel(out.findings, "warning")


\* The event loop runs a continuation that is ready: once Promise.all is
\* rejected, the catch block of main runs.
SpecLive == Spec /\ WF_vars(MainCatch)

\* both retrievals have completed successfully
RetrievalsDone == malwareRaw.state = "resolved" /\ treeRaw.state = "resolved"

\* C15: whatever the order in which the two retrievals complete, a step that
\* leaves the await for the rest of the try block (normalization, flattening,
\* scan, printing) is taken only when both retrievals have completed
\* successfully; once a retrieval has failed, scan is never invoked and no
\* finding is printed, and the run ends with exit code 1.
C15_ScanAfterBothRetrievals ==
    /\ [][(pc = "await" /\ pc' # "await" /\ ~RetrievalFailed') => RetrievalsDone]_vars
    /\ [][(pc' = "exited" \/ stdout' # stdout) => RetrievalsDone]_vars
    /\ [](RetrievalFailed => (pc # "exited" /\ stdout = <<>>))
    /\ (RetrievalFailed ~> (pc = "caught" /\ exitCode = 1))

\* the feed was retrieved, the tree was not, and main has ended with 1 and
\* printed nothing
C15_Witness ==
    /\ op = "main"
    /\ pc = "caught"
    /\ malwareRaw.state = "resolved"
    /\ treeRaw.state = "rejected"
    /\ stdout = <<>>
    /\ exitCode = 1

====
